---- MODULE Spec2Model ----
(***************************************************************************)
(* Model of modules/version-checker/version_checker.go: CheckVersionE and  *)
(* its stages validateParams, getVersionWithShellCommand,                  *)
(* extractVersionFromShellCommandOutput and                                *)
(* validateBinaryVersionGreaterOrEqual.                                    *)
(*                                                                         *)
(* A Go string is a sequence of one-character strings: "1.2" is            *)
(* <<"1", ".", "2">> and "" is <<>>.  An error value is a record holding   *)
(* the format string's kind, its %s arguments and the kind of the wrapped  *)
(* (%w) error; the nil error is Nil.                                       *)
(***************************************************************************)
EXTENDS Integers, Sequences, FiniteSets, TLC

VARIABLES
    pc,               \* position of the call being modelled
    binary,           \* params.binary
    expectedVersion,  \* params.expectedVersion
    workingDir,       \* params.workingDir
    binaryName,       \* local of getVersionWithShellCommand
    output,           \* what the command runner returned
    version,          \* what extraction returned
    err,              \* the error value the call returns
    runs,             \* number of invocations of shell.RunCommandAndGetOutputE
    trace,            \* the stages performed so far, in order
    fatal,            \* t.Fatalf has been called
    versionStr1,      \* first argument of validateBinaryVersionGreaterOrEqual
    versionStr2,      \* second argument of validateBinaryVersionGreaterOrEqual
    nums1,            \* the integers versionStr1 was written from
    nums2             \* the integers versionStr2 was written from

vars == <<pc, binary, expectedVersion, workingDir, binaryName, output, version,
          err, runs, trace, fatal, versionStr1, versionStr2, nums1, nums2>>

-----------------------------------------------------------------------------
(* Bounds of the model *)

\* longest expectedVersion drawn for a CheckVersionE call
MaxLen == 4
\* longest command output drawn for a CheckVersionE call
MaxOutputLen == 3
\* longest text drawn for extractVersionFromShellCommandOutput alone
MaxTextLen == 5
\* most segments of a well-formed version drawn for the comparator
MaxSegs == 3
\* longest raw string drawn for the comparator
MaxRawLen == 3

\* the characters version strings and outputs are drawn from
Alphabet == {"1", "2", ".", "v"}
\* the characters raw comparator arguments are drawn from
RawAlphabet == {"1", "2", ".", "x", "-"}
\* the segment values well-formed versions are drawn from
SegVals == {0, 2, 10}

StringsUpTo(A, n) == UNION {[1..k -> A] : k \in 0..n}

-----------------------------------------------------------------------------
(* Program constants *)

Docker == 0
Terraform == 1
Packer == 2

DefaultVersionArg == <<"-", "-", "v", "e", "r", "s", "i", "o", "n">>

Digits == {"0", "1", "2", "3", "4", "5", "6", "7", "8", "9"}

DigitValue(c) ==
    CASE c = "0" -> 0 [] c = "1" -> 1 [] c = "2" -> 2 [] c = "3" -> 3
      [] c = "4" -> 4 [] c = "5" -> 5 [] c = "6" -> 6 [] c = "7" -> 7
      [] c = "8" -> 8 [] c = "9" -> 9

-----------------------------------------------------------------------------
(* Errors *)

Nil == [kind |-> "nil", args |-> <<>>, cause |-> "nil"]

Errorf(kind, args) == [kind |-> kind, args |-> args, cause |-> "nil"]

Wrapf(kind, args, inner) == [kind |-> kind, args |-> args, cause |-> inner.kind]

-----------------------------------------------------------------------------
(* regexp with VersionRegexMatcher = \d+(\.\d+)+ : leftmost match, every   *)
(* repetition greedy.                                                      *)

\* index of the last character of the longest run of digits starting at i,
\* i - 1 when s[i] is no digit
RECURSIVE DigitRunEnd(_, _)
DigitRunEnd(s, i) ==
    IF i <= Len(s) /\ s[i] \in Digits THEN DigitRunEnd(s, i + 1) ELSE i - 1

\* (\.\d+)* from position e + 1 on: the index of the last character matched
RECURSIVE GroupsEnd(_, _)
GroupsEnd(s, e) ==
    IF e + 2 <= Len(s) /\ s[e + 1] = "." /\ s[e + 2] \in Digits
    THEN GroupsEnd(s, DigitRunEnd(s, e + 2))
    ELSE e

\* MatchAt with the pattern \d+(\.\d+)* : the groups after the first optional
MatchAtStar(s, i) ==
    LET d == DigitRunEnd(s, i)
        g == GroupsEnd(s, d)
    IN  IF d >= i THEN g ELSE 0

\* the end of the match of the pattern starting exactly at i, 0 when none
MatchAt(s, i) ==
    LET d == DigitRunEnd(s, i)
        g == GroupsEnd(s, d)
    IN  IF d >= i /\ g > d THEN g ELSE 0

\* the start of the leftmost match at or after i, 0 when there is none
RECURSIVE FindFrom(_, _)
FindFrom(s, i) ==
    IF i > Len(s) THEN 0
    ELSE IF MatchAt(s, i) > 0 THEN i
    ELSE FindFrom(s, i + 1)

\* regexMatcher.FindString(s): the text of the leftmost match, "" when none
FindString(s) ==
    LET i == FindFrom(s, 1)
    IN  IF i = 0 THEN <<>> ELSE SubSeq(s, i, MatchAt(s, i))

\* regexp.MatchString(VersionRegexMatcher, s): s contains a match
MatchString(s) == FindFrom(s, 1) > 0

-----------------------------------------------------------------------------
(* validateParams *)

validateParams(b, ev, wd) ==
    IF Len(ev) = 0 THEN Errorf("empty expectedVersion found", <<>>)
    ELSE IF Len(wd) = 0 THEN Errorf("empty workingDir found", <<>>)
    ELSE IF b < 0 THEN Errorf("empty binary found", <<>>)
    ELSE IF ~MatchString(ev)
         THEN Errorf("invalid expected version format found", <<ev>>)
    ELSE Nil

-----------------------------------------------------------------------------
(* extractVersionFromShellCommandOutput: [version, err] *)

extractVersionFromShellCommandOutput(out) ==
    LET v == FindString(out)
    IN  IF Len(v) = 0
        THEN [version |-> <<>>,
              err |-> Errorf("failed to find version using regex matcher", <<>>)]
        ELSE [version |-> v, err |-> Nil]

-----------------------------------------------------------------------------
(* strings.Split(s, ".") and strconv.Atoi *)

\* the segments of s between its periods; a string without period is one
\* segment, the empty string included
RECURSIVE SplitFrom(_, _, _)
SplitFrom(s, i, cur) ==
    IF i > Len(s) THEN <<cur>>
    ELSE IF s[i] = "." THEN <<cur>> \o SplitFrom(s, i + 1, <<>>)
    ELSE SplitFrom(s, i + 1, Append(cur, s[i]))

Split(s) == SplitFrom(s, 1, <<>>)

\* the value of a run of digits read left to right, -1 when a character is
\* no digit
RECURSIVE AtoiDigits(_, _, _)
AtoiDigits(s, i, n) ==
    IF i > Len(s) THEN n
    ELSE IF s[i] \notin Digits THEN -1
    ELSE AtoiDigits(s, i + 1, n * 10 + DigitValue(s[i]))

\* strconv.Atoi: an optional sign, then one or more digits.  The segments
\* drawn here are far shorter than the 19 characters at which a value can
\* leave the int range.
Atoi(s) ==
    LET signed == Len(s) > 0 /\ s[1] \in {"-", "+"}
        body   == IF signed THEN Tail(s) ELSE s
        n      == AtoiDigits(body, 1, 0)
    IN  IF Len(body) < 1 \/ n < 0 THEN [ok |-> FALSE, val |-> 0]
        ELSE IF signed /\ s[1] = "-" THEN [ok |-> TRUE, val |-> 0 - n]
        ELSE [ok |-> TRUE, val |-> n]

-----------------------------------------------------------------------------
(* validateBinaryVersionGreaterOrEqual *)

SmallerThan(s1, s2) == Errorf("binary version is smaller than", <<s1, s2>>)

InvalidFormat(s) == Errorf("invalid format version found", <<s>>)

\* FinalLengthCheck left out: equal compared segments always pass
FinalLengthCheckDropped(s1, s2, v1Length, v2Length) == Nil

\* the statement after the loop
FinalLengthCheck(s1, s2, v1Length, v2Length) ==
    IF v1Length < v2Length THEN SmallerThan(s1, s2) ELSE Nil

\* CompareLoop without the early "return nil" on a greater segment: the loop
\* goes on to the next index instead
RECURSIVE CompareLoopNoEarlyPass(_, _, _, _, _, _)
CompareLoopNoEarlyPass(s1, s2, versionNums1, versionNums2, length, i) ==
    IF i >= length
    THEN IF Len(versionNums1) < Len(versionNums2) THEN SmallerThan(s1, s2) ELSE Nil
    ELSE LET v1 == Atoi(versionNums1[i + 1])
             v2 == Atoi(versionNums2[i + 1])
         IN  IF ~v1.ok THEN InvalidFormat(s1)
             ELSE IF ~v2.ok THEN InvalidFormat(s2)
             ELSE IF v1.val < v2.val THEN SmallerThan(s1, s2)
             ELSE CompareLoopNoEarlyPass(s1, s2, versionNums1, versionNums2,
                                         length, i + 1)

\* the loop from index i (0-based, as in the code) on
RECURSIVE CompareLoop(_, _, _, _, _, _)
CompareLoop(s1, s2, versionNums1, versionNums2, length, i) ==
    IF i >= length
    THEN FinalLengthCheck(s1, s2, Len(versionNums1), Len(versionNums2))
    ELSE LET v1 == Atoi(versionNums1[i + 1])
             v2 == Atoi(versionNums2[i + 1])
         IN  IF ~v1.ok THEN InvalidFormat(s1)
             ELSE IF ~v2.ok THEN InvalidFormat(s2)
             ELSE IF v1.val < v2.val THEN SmallerThan(s1, s2)
             ELSE IF v1.val > v2.val THEN Nil
             ELSE CompareLoop(s1, s2, versionNums1, versionNums2, length, i + 1)

validateBinaryVersionGreaterOrEqual(s1, s2) ==
    IF Len(s1) = 0 THEN Errorf("empty versionStr1 found", <<>>)
    ELSE IF Len(s2) = 0 THEN Errorf("empty versionStr2 found", <<>>)
    ELSE LET versionNums1 == Split(s1)
             versionNums2 == Split(s2)
             v1Length == Len(versionNums1)
             v2Length == Len(versionNums2)
             length == IF v2Length < v1Length THEN v2Length ELSE v1Length
         IN  CompareLoop(s1, s2, versionNums1, versionNums2, length, 0)

-----------------------------------------------------------------------------
(* CheckVersionE, one step per stage *)

CmpDefault ==
    /\ versionStr1 = <<>> /\ versionStr2 = <<>> /\ nums1 = <<>> /\ nums2 = <<>>

BinaryValues == {-1, Docker, Terraform, Packer, 3}

WorkingDirs == {<<>>, <<".">>}

Init ==
    /\ pc = "start"
    /\ binary \in BinaryValues
    /\ expectedVersion \in StringsUpTo(Alphabet, MaxLen)
    /\ workingDir \in WorkingDirs
    /\ binaryName = <<>> /\ output = <<>> /\ version = <<>>
    /\ err = Nil /\ runs = 0 /\ trace = <<>> /\ fatal = FALSE
    /\ CmpDefault

\* Validate without the early return: the call goes on whatever
\* validateParams returned
ValidateThenGoOn ==
    /\ pc = "start"
    /\ err' = validateParams(binary, expectedVersion, workingDir)
    /\ pc' = "select"
    /\ trace' = Append(trace, "validate")
    /\ UNCHANGED <<binary, expectedVersion, workingDir, binaryName, output,
                   version, runs, fatal, versionStr1, versionStr2, nums1, nums2>>

\* err := validateParams(params); if err != nil { return err }
Validate ==
    /\ pc = "start"
    /\ err' = validateParams(binary, expectedVersion, workingDir)
    /\ pc' = IF err' = Nil THEN "select" ELSE "done"
    /\ trace' = Append(trace, "validate")
    /\ UNCHANGED <<binary, expectedVersion, workingDir, binaryName, output,
                   version, runs, fatal, versionStr1, versionStr2, nums1, nums2>>

\* the switch of getVersionWithShellCommand on a supported binary
SelectBinary ==
    /\ pc = "select"
    /\ binary \in {Docker, Packer, Terraform}
    /\ binaryName' = CASE binary = Docker -> <<"d", "o", "c", "k", "e", "r">>
                       [] binary = Packer -> <<"p", "a", "c", "k", "e", "r">>
                       [] binary = Terraform ->
                            <<"t", "e", "r", "r", "a", "f", "o", "r", "m">>
    /\ pc' = "run"
    /\ UNCHANGED <<binary, expectedVersion, workingDir, output, version, err,
                   runs, trace, fatal, versionStr1, versionStr2, nums1, nums2>>

\* the default branch of the switch: t.Fatalf.  A *testing.T ends the calling
\* goroutine there; another TestingT may return, and the function goes on
\* with the empty binaryName.
UnsupportedBinary ==
    /\ pc = "select"
    /\ binary \notin {Docker, Packer, Terraform}
    /\ fatal' = TRUE
    /\ pc' \in {"aborted", "run"}
    /\ UNCHANGED <<binary, expectedVersion, workingDir, binaryName, output,
                   version, err, runs, trace, versionStr1, versionStr2, nums1,
                   nums2>>

\* shell.RunCommandAndGetOutputE returns an output
RunCommandOk ==
    /\ pc = "run"
    /\ \E o \in StringsUpTo(Alphabet, MaxOutputLen) : output' = o
    /\ runs' = runs + 1
    /\ trace' = Append(trace, "run")
    /\ pc' = "extract"
    /\ UNCHANGED <<binary, expectedVersion, workingDir, binaryName, version,
                   err, fatal, versionStr1, versionStr2, nums1, nums2>>

\* shell.RunCommandAndGetOutputE returns an error
RunCommandFail ==
    /\ pc = "run"
    /\ runs' = runs + 1
    /\ trace' = Append(trace, "run")
    /\ err' = Wrapf("failed to run shell command for binaray",
                    <<binaryName, DefaultVersionArg>>,
                    Errorf("command runner error", <<>>))
    /\ pc' = "done"
    /\ UNCHANGED <<binary, expectedVersion, workingDir, binaryName, output,
                   version, fatal, versionStr1, versionStr2, nums1, nums2>>

\* version, err := extractVersionFromShellCommandOutput(output)
Extract ==
    /\ pc = "extract"
    /\ LET r == extractVersionFromShellCommandOutput(output)
       IN  IF r.err # Nil
           THEN /\ err' = Wrapf("failed to extract version from shell command output",
                                <<output>>, r.err)
                /\ version' = <<>>
                /\ pc' = "done"
           ELSE /\ err' = err
                /\ version' = r.version
                /\ pc' = "compare"
    /\ trace' = Append(trace, "extract")
    /\ UNCHANGED <<binary, expectedVersion, workingDir, binaryName, output,
                   runs, fatal, versionStr1, versionStr2, nums1, nums2>>

\* return validateBinaryVersionGreaterOrEqual(version, params.expectedVersion)
Compare ==
    /\ pc = "compare"
    /\ err' = validateBinaryVersionGreaterOrEqual(version, expectedVersion)
    /\ trace' = Append(trace, "compare")
    /\ pc' = "done"
    /\ UNCHANGED <<binary, expectedVersion, workingDir, binaryName, output,
                   version, runs, fatal, versionStr1, versionStr2, nums1, nums2>>

Next ==
    \/ Validate
    \/ SelectBinary
    \/ UnsupportedBinary
    \/ RunCommandOk
    \/ RunCommandFail
    \/ Extract
    \/ Compare

Spec == Init /\ [][Next]_vars

-----------------------------------------------------------------------------
(* The functions called alone *)

PipelineDefault ==
    /\ binary = Docker /\ expectedVersion = <<>> /\ workingDir = <<>>
    /\ binaryName = <<>> /\ runs = 0 /\ trace = <<>> /\ fatal = FALSE

\* how a version, a non-empty sequence of non-negative integers, is written
RECURSIVE Itoa(_)
Itoa(n) ==
    LET d == CHOOSE c \in Digits : DigitValue(c) = n % 10
    IN  IF n < 10 THEN <<d>> ELSE Append(Itoa(n \div 10), d)

RECURSIVE FormatVersion(_)
FormatVersion(ns) ==
    IF Len(ns) = 1 THEN Itoa(ns[1])
    ELSE FormatVersion(SubSeq(ns, 1, Len(ns) - 1)) \o <<".">> \o Itoa(ns[Len(ns)])

IntSeqs == UNION {[1..k -> SegVals] : k \in 1..MaxSegs}

\* extractVersionFromShellCommandOutput on a text
InitExtract ==
    /\ pc = "start"
    /\ output \in StringsUpTo(Alphabet, MaxTextLen)
    /\ version = <<>> /\ err = Nil
    /\ PipelineDefault /\ CmpDefault

CallExtract ==
    /\ pc = "start"
    /\ LET r == extractVersionFromShellCommandOutput(output)
       IN  version' = r.version /\ err' = r.err
    /\ pc' = "done"
    /\ UNCHANGED <<binary, expectedVersion, workingDir, binaryName, output,
                   runs, trace, fatal, versionStr1, versionStr2, nums1, nums2>>

NextExtract == CallExtract

SpecExtract == InitExtract /\ [][NextExtract]_vars

\* validateBinaryVersionGreaterOrEqual on two well-formed versions
InitCmp ==
    /\ pc = "start"
    /\ nums1 \in IntSeqs /\ nums2 \in IntSeqs
    /\ versionStr1 = FormatVersion(nums1)
    /\ versionStr2 = FormatVersion(nums2)
    /\ output = <<>> /\ version = <<>> /\ err = Nil
    /\ PipelineDefault

\* validateBinaryVersionGreaterOrEqual on two arbitrary strings
InitRaw ==
    /\ pc = "start"
    /\ versionStr1 \in StringsUpTo(RawAlphabet, MaxRawLen)
    /\ versionStr2 \in StringsUpTo(RawAlphabet, MaxRawLen)
    /\ nums1 = <<>> /\ nums2 = <<>>
    /\ output = <<>> /\ version = <<>> /\ err = Nil
    /\ PipelineDefault

CallCompare ==
    /\ pc = "start"
    /\ err' = validateBinaryVersionGreaterOrEqual(versionStr1, versionStr2)
    /\ pc' = "done"
    /\ UNCHANGED <<binary, expectedVersion, workingDir, binaryName, output,
                   version, runs, trace, fatal, versionStr1, versionStr2, nums1,
                   nums2>>

NextCmp == CallCompare

SpecCmp == InitCmp /\ [][NextCmp]_vars

SpecRaw == InitRaw /\ [][NextCmp]_vars

-----------------------------------------------------------------------------
(* Vocabulary of the properties, stated without the program's algorithms *)

SupportedBinaries == {Docker, Terraform, Packer}

StageOrder == <<"validate", "run", "extract", "compare">>

IsPrefix(t, u) == Len(t) <= Len(u) /\ t = SubSeq(u, 1, Len(t))

Min(S) == CHOOSE x \in S : \A y \in S : x <= y

\* one or more groups of digits separated by single periods, nothing else
IsDottedNumeric(s) ==
    /\ Len(s) >= 1
    /\ \A i \in 1..Len(s) : s[i] \in Digits \cup {"."}
    /\ s[1] \in Digits /\ s[Len(s)] \in Digits
    /\ \A i \in 1..(Len(s) - 1) : ~(s[i] = "." /\ s[i + 1] = ".")

\* a dotted-numeric text of at least two groups
IsDottedRun(s) == IsDottedNumeric(s) /\ \E i \in 1..Len(s) : s[i] = "."

\* a non-empty group of digits
IsDigitGroup(g) == Len(g) >= 1 /\ \A i \in 1..Len(g) : g[i] \in Digits

\* the positions that delimit the segments of s: before it, its periods, after it
Delimiters(s) == {0, Len(s) + 1} \cup {i \in 1..Len(s) : s[i] = "."}

\* the set of '.'-separated segments of s
SegmentsOf(s) ==
    {SubSeq(s, a + 1, b - 1) : <<a, b>> \in
        {p \in Delimiters(s) \X Delimiters(s) :
            p[1] < p[2] /\ \A d \in Delimiters(s) : ~(p[1] < d /\ d < p[2])}}

\* the k-th segment of s, k from 1
SegmentAt(s, k) ==
    LET a == CHOOSE d \in Delimiters(s) :
                 Cardinality({e \in Delimiters(s) : e < d}) = k - 1
        b == Min({d \in Delimiters(s) : d > a})
    IN  SubSeq(s, a + 1, b - 1)

RECURSIVE Pow10(_)
Pow10(n) == IF n = 0 THEN 1 ELSE 10 * Pow10(n - 1)

RECURSIVE SumTo(_, _)
SumTo(f, n) == IF n = 0 THEN 0 ELSE f[n] + SumTo(f, n - 1)

\* the number a group of digits denotes
DecimalValue(g) ==
    SumTo([i \in 1..Len(g) |-> DigitValue(g[i]) * Pow10(Len(g) - i)], Len(g))

\* the sequence of integers a dotted-numeric string denotes
NumsOf(s) ==
    [k \in 1..(Cardinality(Delimiters(s)) - 1) |-> DecimalValue(SegmentAt(s, k))]

\* a >= b for sequences of integers: the first differing position decides,
\* and on an equal common prefix the one with at least as many segments
SeqGE(a, b) ==
    LET n == IF Len(a) < Len(b) THEN Len(a) ELSE Len(b)
        diff == {i \in 1..n : a[i] # b[i]}
    IN  IF diff = {} THEN Len(a) >= Len(b) ELSE a[Min(diff)] > b[Min(diff)]

\* every stage of CheckVersionE up to the comparison has been performed
Compared == pc = "done" /\ trace = StageOrder

\* validateParams has just returned, and err is what it returned
Validated == trace = <<"validate">>

-----------------------------------------------------------------------------
(* Properties of CheckVersionE (specification Spec) *)

\* C1: for every accepted request and every output a version is extracted
\* from, CheckVersionE returns nil exactly when the extracted version is >=
\* expectedVersion in the component-wise numeric order, and otherwise the
\* "is smaller than" error naming both versions.
C1_PassOrSmaller ==
    Compared =>
        /\ err = Nil \/ err = SmallerThan(version, expectedVersion)
        /\ err = Nil <=>
             /\ IsDottedNumeric(version) /\ IsDottedNumeric(expectedVersion)
             /\ SeqGE(NumsOf(version), NumsOf(expectedVersion))

\* C3: with workingDir non-empty and a recognized binary, validateParams
\* accepts a non-empty expectedVersion if and only if the whole string is
\* dotted-numeric, and returns the invalid-format error otherwise.
C3_AcceptsExactlyDottedNumeric ==
    (Validated /\ Len(workingDir) > 0 /\ binary \in SupportedBinaries
               /\ Len(expectedVersion) > 0) =>
        IF IsDottedNumeric(expectedVersion)
        THEN err = Nil
        ELSE err = Errorf("invalid expected version format found",
                          <<expectedVersion>>)

\* C4: validateParams fails for every binary outside Docker, Terraform,
\* Packer, so the "unsupported binary" t.Fatalf is never reached.
C4_UnsupportedBinaryRejected ==
    /\ (Validated /\ binary \notin SupportedBinaries) => err # Nil
    /\ ~fatal

\* C5: the stages run in the order validate, run, extract, compare and the
\* call stops at the first failing stage with that stage's error: no run
\* after a failed validation, at most one run, no extraction or comparison
\* after a failed run.
C5_StagesInOrder ==
    LET v == validateParams(binary, expectedVersion, workingDir)
    IN  /\ IsPrefix(trace, StageOrder)
        /\ runs = Cardinality({i \in DOMAIN trace : trace[i] = "run"})
        /\ runs <= 1
        /\ v # Nil => /\ runs = 0
                      /\ pc # "start" =>
                            pc = "done" /\ err = v /\ trace = <<"validate">>
        /\ err.kind = "failed to run shell command for binaray" =>
              pc = "done" /\ trace = <<"validate", "run">>
        /\ err.kind = "failed to extract version from shell command output" =>
              pc = "done" /\ trace = <<"validate", "run", "extract">>
        /\ (pc = "done" /\ err = Nil) => trace = StageOrder
        /\ pc = "done" => ~ENABLED Next

\* a call whose command run failed has returned
C5_Witness ==
    /\ pc = "done" /\ runs = 1
    /\ err.kind = "failed to run shell command for binaray"

\* C9: validateParams reports the empty expectedVersion, then the empty
\* workingDir, then the unrecognized binary, each with its own error, and
\* the format error only when all three are in order.
C9_FieldPrecedence ==
    Validated =>
        IF Len(expectedVersion) = 0
        THEN err = Errorf("empty expectedVersion found", <<>>)
        ELSE IF Len(workingDir) = 0
        THEN err = Errorf("empty workingDir found", <<>>)
        ELSE IF binary \notin SupportedBinaries
        THEN err = Errorf("empty binary found", <<>>)
        ELSE err.kind \in {"nil", "invalid expected version format found"}

\* C10: once validateParams accepted expectedVersion and a version was
\* extracted, the comparison returns nil or the "is smaller than" error,
\* never a format or empty-version error.
C10_NoFormatErrorAfterValidation ==
    Compared => err.kind \in {"nil", "binary version is smaller than"}

-----------------------------------------------------------------------------
(* Properties of extractVersionFromShellCommandOutput (SpecExtract) *)

\* the positions of output at which some dotted run starts
RunStarts(s) ==
    {i \in 1..Len(s) : \E j \in i..Len(s) : IsDottedRun(SubSeq(s, i, j))}

\* C6: extraction returns the leftmost substring that is a run of two or
\* more digit groups joined by periods (the longest one starting there),
\* verbatim, and fails with "failed to find version" exactly when the text
\* holds no such substring.
C6_LeftmostDottedRun ==
    pc = "done" =>
        IF RunStarts(output) = {}
        THEN /\ version = <<>>
             /\ err = Errorf("failed to find version using regex matcher", <<>>)
        ELSE LET i == Min(RunStarts(output))
                 ends == {j \in i..Len(output) : IsDottedRun(SubSeq(output, i, j))}
             IN  /\ err = Nil
                 /\ IsDottedRun(version)
                 /\ \E j \in ends : /\ version = SubSeq(output, i, j)
                                    /\ \A k \in ends : k <= j

\* a version was extracted out of surrounding text
C6_Witness ==
    /\ pc = "done" /\ err = Nil
    /\ output[1] = "v" /\ Len(version) + 1 < Len(output)

-----------------------------------------------------------------------------
(* Properties of validateBinaryVersionGreaterOrEqual on well-formed        *)
(* versions (SpecCmp) and on arbitrary strings (SpecRaw)                   *)

Passes(s1, s2) == validateBinaryVersionGreaterOrEqual(s1, s2) = Nil

\* C2: on well-formed versions the comparator returns nil if and only if
\* the first is >= the second: the first differing segment decides, and on
\* an equal common prefix the first passes exactly when it has at least as
\* many segments.
C2_PassIffGreaterOrEqual ==
    pc = "done" =>
        IF SeqGE(nums1, nums2)
        THEN err = Nil
        ELSE err = SmallerThan(versionStr1, versionStr2)

\* the longer of two versions with an equal common prefix was compared
\* against the shorter
C2_Witness ==
    /\ pc = "done" /\ err = Nil
    /\ Len(nums1) > Len(nums2)
    /\ \A i \in 1..Len(nums2) : nums1[i] = nums2[i]

\* C7: the comparator returns the invalid-format error whenever some
\* segment of either non-empty string is not a non-negative integer,
\* wherever the segment sits.
C7_AnyBadSegmentIsError ==
    (/\ pc = "done" /\ Len(versionStr1) > 0 /\ Len(versionStr2) > 0
     /\ \E g \in SegmentsOf(versionStr1) \cup SegmentsOf(versionStr2) :
            ~IsDigitGroup(g))
        => err.kind = "invalid format version found"

\* C8: "the comparator returns nil" is a total order on well-formed
\* versions: reflexive, total, antisymmetric and transitive.
C8_TotalOrder ==
    pc = "done" =>
        /\ nums1 = nums2 => err = Nil
        /\ err = Nil \/ Passes(versionStr2, versionStr1)
        /\ (err = Nil /\ Passes(versionStr2, versionStr1)) => nums1 = nums2
        /\ \A c \in IntSeqs :
              (err = Nil /\ Passes(versionStr2, FormatVersion(c)))
                  => Passes(versionStr1, FormatVersion(c))

\* two different versions of different lengths were compared, and the
\* first lost
C8_Witness ==
    /\ pc = "done" /\ err # Nil
    /\ Len(nums1) > Len(nums2)
    /\ Passes(versionStr2, versionStr1)

====
